---- MODULE Spec2Model ----
(***************************************************************************)
(* The transaction mutation engine of server.js: create, edit, soft-delete *)
(* and restore of financial transactions over one shared better-sqlite3    *)
(* connection.  Amounts are integers; SQL NULL and the JavaScript falsy    *)
(* values of an id are 0, an absent string is "".                          *)
(***************************************************************************)
EXTENDS Integers, Sequences, FiniteSets, TLC

\* ------------------------------------------------------------------ bounds
MaxOps == 3         \* mutations a behaviour may hold: rows created and history rows
MaxAmount == 2      \* largest amount a request carries

\* ------------------------------------------------- the world of the model
\* SQL NULL in a numeric column and in a text or timestamp column; an absent
\* account id is 0, which is no account's id and false in JavaScript
NullNumber == -1
NullText == ""
Users == {1, 2}
AccountIds == {1, 2, 3}
\* accounts.user_id: accounts 1 and 2 belong to user 1, account 3 to user 2
AccountOwner == [a \in AccountIds |-> IF a = 3 THEN 2 ELSE 1]
\* accounts.balance at the time the accounts were created
InitialBalance == [a \in AccountIds |-> IF a = 2 THEN 0 ELSE 1]
Procs == {1, 2}
Types == {"income", "expense", "transfer", "conversion"}
DebitTypes == {"expense", "transfer", "conversion"}
\* what new Date().toISOString() may answer
Times == {"2026-01-02T00:00:00.000Z"}
\* rates the exchange-rate lookup may answer (1 is also its fallback)
LookupRates == {1, 2}

VARIABLES
    accounts,             \* accounts.balance, by account id
    transactions,         \* the transactions table, row i has id i
    transaction_history,  \* the transaction_history table, in insertion order
    inTransaction,        \* the connection has an open BEGIN
    snapshot,             \* the tables as they were at that BEGIN
    pc,                   \* per request handler: idle or suspended in an await
    req,                  \* per request handler: the request it is serving
    response,             \* the last response sent
    exchangeRateCache,    \* the rates kept in memory, by currency pair
    exchange_rates,       \* the exchange_rates table, by currency pair
    clock,                \* the time, in half hours
    lookup,               \* the rate lookup made by the last step
    issued                \* the BEGIN, COMMIT, ROLLBACK of the last request

rateVars == <<exchangeRateCache, exchange_rates, clock, lookup>>

vars == <<accounts, transactions, transaction_history, inTransaction,
          snapshot, pc, req, response, exchangeRateCache, exchange_rates,
          clock, lookup, issued>>

\* ------------------------------------------------------------ the database
NoTables == [accounts |-> InitialBalance, transactions |-> <<>>,
             transaction_history |-> <<>>]

DB == [accounts |-> accounts, transactions |-> transactions,
       transaction_history |-> transaction_history,
       inTransaction |-> inTransaction, snapshot |-> snapshot]

Tables(db) == [accounts |-> db.accounts, transactions |-> db.transactions,
               transaction_history |-> db.transaction_history]

\* BEGIN on a connection without an open transaction
Begin(db) == [db EXCEPT !.inTransaction = TRUE, !.snapshot = Tables(db)]

\* COMMIT of the open transaction
Commit(db) == [db EXCEPT !.inTransaction = FALSE, !.snapshot = NoTables]

\* a ROLLBACK that closes the transaction and keeps its writes
Rollback_KeepsWrites(db) == [db EXCEPT !.inTransaction = FALSE, !.snapshot = NoTables]

\* ROLLBACK of the open transaction: every write since BEGIN is undone,
\* whichever handler made it
Rollback(db) ==
    [accounts |-> db.snapshot.accounts,
     transactions |-> db.snapshot.transactions,
     transaction_history |-> db.snapshot.transaction_history,
     inTransaction |-> FALSE, snapshot |-> NoTables]

\* SELECT * FROM accounts WHERE id = ? AND user_id = ?
AccountFound(id, userId) == id \in AccountIds /\ AccountOwner[id] = userId

\* UPDATE accounts SET balance = balance + ? WHERE id = ? AND user_id = ?
UpdateBalance(db, delta, id, userId) ==
    IF AccountFound(id, userId)
    THEN [db EXCEPT !.accounts[id] = @ + delta]
    ELSE db

\* a lookup that ignores the deletion marker
TxFound_AnyState(db, id, userId, deleted) ==
    /\ id \in 1..Len(db.transactions)
    /\ db.transactions[id].user_id = userId

\* a lookup that takes the deletion marker the wrong way round
TxFound_Inverted(db, id, userId, deleted) ==
    /\ id \in 1..Len(db.transactions)
    /\ db.transactions[id].user_id = userId
    /\ (db.transactions[id].deleted_at = NullText) = deleted

\* SELECT * FROM transactions WHERE id = ? AND user_id = ? AND deleted_at IS [NOT] NULL
TxFound(db, id, userId, deleted) ==
    /\ id \in 1..Len(db.transactions)
    /\ db.transactions[id].user_id = userId
    /\ (db.transactions[id].deleted_at # NullText) = deleted

\* ------------------------------------------------------------- validation
\* a validation without the rules on the accounts of a transfer
validateTransactionInput_NoTransferRules(r) ==
    IF r.type \notin Types THEN "Invalid transaction type."
    ELSE IF r.amount < 0 THEN "Amount must be a non-negative number."
    ELSE IF r.date = "" THEN "Date is required."
    ELSE IF r.category = "" THEN "Category is required."
    ELSE IF r.type \in {"income", "expense"} /\ r.account_id = 0
         THEN "Account is required for this transaction."
    ELSE ""

validateTransactionInput(r) ==
    IF r.type \notin Types THEN "Invalid transaction type."
    ELSE IF r.amount < 0 THEN "Amount must be a non-negative number."
    ELSE IF r.date = "" THEN "Date is required."
    ELSE IF r.category = "" THEN "Category is required."
    ELSE IF r.type \in {"income", "expense"} /\ r.account_id = 0
         THEN "Account is required for this transaction."
    ELSE IF r.type \in {"transfer", "conversion"}
            /\ (r.account_id = 0 \/ r.to_account_id = 0)
         THEN "Both source and destination accounts are required for transfer."
    ELSE IF r.type \in {"transfer", "conversion"}
            /\ r.account_id = r.to_account_id
         THEN "Source and destination accounts must differ."
    ELSE ""

Abs(x) == IF x < 0 THEN -x ELSE x

\* the shortfall reported is the amount attempted
validateSufficientBalance_WrongShortfall(balance, amount) ==
    IF balance - amount < 0
    THEN [valid |-> FALSE, error |-> "Insufficient funds",
          availableBalance |-> balance, attemptedAmount |-> amount,
          shortfall |-> amount]
    ELSE [valid |-> TRUE, error |-> "", availableBalance |-> 0,
          attemptedAmount |-> 0, shortfall |-> 0]

\* a debit that empties the account is refused
validateSufficientBalance_Strict(balance, amount) ==
    IF balance - amount <= 0
    THEN [valid |-> FALSE, error |-> "Insufficient funds",
          availableBalance |-> balance, attemptedAmount |-> amount,
          shortfall |-> Abs(balance - amount)]
    ELSE [valid |-> TRUE, error |-> "", availableBalance |-> 0,
          attemptedAmount |-> 0, shortfall |-> 0]

validateSufficientBalance(balance, amount) ==
    LET postTransactionBalance == balance - amount IN
    IF postTransactionBalance < 0
    THEN [valid |-> FALSE, error |-> "Insufficient funds",
          availableBalance |-> balance, attemptedAmount |-> amount,
          shortfall |-> Abs(postTransactionBalance)]
    ELSE [valid |-> TRUE, error |-> "", availableBalance |-> 0,
          attemptedAmount |-> 0, shortfall |-> 0]

\* ----------------------------------------------------------- balance effects
\* type === 'conversion' ? (transaction.converted_amount || amount) : amount
DestAmount(transaction) ==
    IF transaction.type = "conversion"
    THEN (IF transaction.converted_amount # 0
          THEN transaction.converted_amount ELSE transaction.amount)
    ELSE transaction.amount

\* a reversal that takes the plain amount from the destination
reverseTransactionEffect_PlainDest(db, transaction, userId) ==
    IF transaction.type = "income" /\ transaction.account_id # 0
    THEN UpdateBalance(db, -transaction.amount, transaction.account_id, userId)
    ELSE IF transaction.type = "expense" /\ transaction.account_id # 0
    THEN UpdateBalance(db, transaction.amount, transaction.account_id, userId)
    ELSE IF transaction.type \in {"transfer", "conversion"}
            /\ transaction.account_id # 0 /\ transaction.to_account_id # 0
    THEN UpdateBalance(
             UpdateBalance(db, transaction.amount, transaction.account_id, userId),
             -transaction.amount, transaction.to_account_id, userId)
    ELSE db

reverseTransactionEffect(db, transaction, userId) ==
    IF transaction.type = "income" /\ transaction.account_id # 0
    THEN UpdateBalance(db, -transaction.amount, transaction.account_id, userId)
    ELSE IF transaction.type = "expense" /\ transaction.account_id # 0
    THEN UpdateBalance(db, transaction.amount, transaction.account_id, userId)
    ELSE IF transaction.type \in {"transfer", "conversion"}
            /\ transaction.account_id # 0 /\ transaction.to_account_id # 0
    THEN UpdateBalance(
             UpdateBalance(db, transaction.amount, transaction.account_id, userId),
             -DestAmount(transaction), transaction.to_account_id, userId)
    ELSE db

\* the destination of a conversion is credited with the plain amount
applyTransactionEffect_PlainDest(db, transaction, userId) ==
    IF transaction.type = "income" /\ transaction.account_id # 0
    THEN UpdateBalance(db, transaction.amount, transaction.account_id, userId)
    ELSE IF transaction.type = "expense" /\ transaction.account_id # 0
    THEN UpdateBalance(db, -transaction.amount, transaction.account_id, userId)
    ELSE IF transaction.type \in {"transfer", "conversion"}
            /\ transaction.account_id # 0 /\ transaction.to_account_id # 0
    THEN UpdateBalance(
             UpdateBalance(db, -transaction.amount, transaction.account_id, userId),
             transaction.amount, transaction.to_account_id, userId)
    ELSE db

applyTransactionEffect(db, transaction, userId) ==
    IF transaction.type = "income" /\ transaction.account_id # 0
    THEN UpdateBalance(db, transaction.amount, transaction.account_id, userId)
    ELSE IF transaction.type = "expense" /\ transaction.account_id # 0
    THEN UpdateBalance(db, -transaction.amount, transaction.account_id, userId)
    ELSE IF transaction.type \in {"transfer", "conversion"}
            /\ transaction.account_id # 0 /\ transaction.to_account_id # 0
    THEN UpdateBalance(
             UpdateBalance(db, -transaction.amount, transaction.account_id, userId),
             DestAmount(transaction), transaction.to_account_id, userId)
    ELSE db

\* -------------------------------------------------------------- audit trail
\* x || null, for a numeric column where 0 is a value
OrNull(x) == IF x # 0 THEN x ELSE NullNumber

HistoryRow(transaction, action, userId) ==
    [transaction_id |-> transaction.id, user_id |-> userId,
     account_id |-> transaction.account_id,
     to_account_id |-> transaction.to_account_id,
     date |-> transaction.date, type |-> transaction.type,
     category |-> transaction.category, amount |-> transaction.amount,
     currency |-> IF transaction.currency = "" THEN "USD" ELSE transaction.currency,
     converted_amount |-> OrNull(transaction.converted_amount),
     exchange_rate |-> OrNull(transaction.exchange_rate),
     action |-> action]

\* the newest row takes the place of the one before it
recordTransactionHistory_Overwrite(db, transaction, action, userId) ==
    [db EXCEPT !.transaction_history =
                   IF @ = <<>>
                   THEN <<HistoryRow(transaction, action, userId)>>
                   ELSE [@ EXCEPT ![Len(@)] =
                            HistoryRow(transaction, action, userId)]]

recordTransactionHistory(db, transaction, action, userId) ==
    [db EXCEPT !.transaction_history =
                   Append(@, HistoryRow(transaction, action, userId))]

\* ---------------------------------------------------------------- responses
NoResponse == [op |-> "none", status |-> 0, error |-> "", availableBalance |-> 0,
               attemptedAmount |-> 0, shortfall |-> 0, id |-> 0, changed |-> FALSE]

Respond(op, status, error, id) ==
    [op |-> op, status |-> status, error |-> error, availableBalance |-> 0,
     attemptedAmount |-> 0, shortfall |-> 0, id |-> id, changed |-> FALSE]

\* res.status(400).json({error, availableBalance, attemptedAmount, shortfall})
RespondRejected(op, error, balanceCheck, id) ==
    [op |-> op, status |-> 400, error |-> error,
     availableBalance |-> balanceCheck.availableBalance,
     attemptedAmount |-> balanceCheck.attemptedAmount,
     shortfall |-> balanceCheck.shortfall, id |-> id, changed |-> FALSE]

\* what a handler leaves behind: the database, the response it sent (or
\* NoResponse while it is suspended) and whether it is suspended in an await
Done(db, resp) == [db |-> db, response |-> resp, suspended |-> FALSE]
Suspended(db) == [db |-> db, response |-> NoResponse, suspended |-> TRUE]

\* ------------------------------------------------------- currency of a request
UserCurrency == "USD"

\* currency || userCurrency
TxCurrency(r) == IF r.currency = "" THEN UserCurrency ELSE r.currency

\* Number(currency) || 1
ExplicitRate(r) == IF r.currency = "2" THEN 2 ELSE 1

\* txCurrency !== userCurrency && type !== 'transfer' && type !== 'conversion':
\* the handler awaits convertCurrency, whose lookup goes to the network
NeedsLookup(r) ==
    TxCurrency(r) # UserCurrency /\ r.type \notin {"transfer", "conversion"}

\* exchangeRate after the conversion branch
ExchangeRate(r, rate) == IF r.type = "conversion" THEN ExplicitRate(r) ELSE rate

\* convertedAmount after the conversion branch
ConvertedAmount(r, rate) == r.amount * ExchangeRate(r, rate)

\* ------------------------------------------------------- fetchExchangeRate
\* 60 * 60 * 1000 ms and '-1 hour', in ticks of the clock
Hour == 2
MaxClock == 3

ForeignCurrencies == {"EUR", "GBP"}

\* `${baseCurrency}_${targetCurrency}`
cacheKey(baseCurrency, targetCurrency) == <<baseCurrency, targetCurrency>>

CacheKeys == {cacheKey(c, UserCurrency) : c \in ForeignCurrencies}

\* no entry of the memory cache, no row of exchange_rates
NoCached == [rate |-> 0, timestamp |-> -1]
NoRate == [rate |-> 0, fetched_at |-> -1]

\* what the fetch may come back with: an exception, a response that is not
\* ok, or a body {success, result}
FetchPayloads ==
    {[thrown |-> TRUE, ok |-> FALSE, success |-> FALSE, result |-> 0],
     [thrown |-> FALSE, ok |-> FALSE, success |-> FALSE, result |-> 0]}
    \cup {[thrown |-> FALSE, ok |-> TRUE, success |-> s, result |-> x] :
              s \in BOOLEAN, x \in 0..2}

NoLookup == [source |-> "none", key |-> <<"", "">>, rate |-> 0]

\* fetchExchangeRate up to the fetch: identical currencies, the memory
\* cache, the exchange_rates table; settled is FALSE when it goes on to
\* the network
fetchExchangeRateCached(cache, rates, baseCurrency, targetCurrency, t) ==
    LET key == cacheKey(baseCurrency, targetCurrency) IN
    IF baseCurrency = targetCurrency
    THEN [settled |-> TRUE, rate |-> 1, source |-> "same", cache |-> cache]
    ELSE IF cache[key] # NoCached /\ cache[key].timestamp > t - Hour
    THEN [settled |-> TRUE, rate |-> cache[key].rate, source |-> "memory",
          cache |-> cache]
    ELSE IF rates[key] # NoRate /\ rates[key].fetched_at > t - Hour
    THEN [settled |-> TRUE, rate |-> rates[key].rate, source |-> "db",
          cache |-> [cache EXCEPT ![key] =
                        [rate |-> rates[key].rate, timestamp |-> t]]]
    ELSE [settled |-> FALSE, rate |-> 0, source |-> "fetching", cache |-> cache]

\* a lookup that keeps the rate it falls back to
fetchExchangeRateFetched_StoresFallback(cache, rates, baseCurrency, targetCurrency, payload, t) ==
    LET key == cacheKey(baseCurrency, targetCurrency)
        failed == payload.thrown \/ ~payload.ok \/ ~payload.success
                  \/ payload.result = 0
        rate == IF failed THEN 1 ELSE payload.result
    IN [rate |-> rate, source |-> IF failed THEN "fallback" ELSE "fetched",
        cache |-> [cache EXCEPT ![key] = [rate |-> rate, timestamp |-> t]],
        rates |-> [rates EXCEPT ![key] = [rate |-> rate, fetched_at |-> t]]]

\* fetchExchangeRate from the answer of the fetch on
fetchExchangeRateFetched(cache, rates, baseCurrency, targetCurrency, payload, t) ==
    LET key == cacheKey(baseCurrency, targetCurrency) IN
    IF payload.thrown \/ ~payload.ok
    THEN [rate |-> 1, source |-> "fallback", cache |-> cache, rates |-> rates]
    ELSE IF ~payload.success \/ payload.result = 0
    THEN [rate |-> 1, source |-> "fallback", cache |-> cache, rates |-> rates]
    ELSE [rate |-> payload.result, source |-> "fetched",
          cache |-> [cache EXCEPT ![key] =
                        [rate |-> payload.result, timestamp |-> t]],
          rates |-> [rates EXCEPT ![key] =
                        [rate |-> payload.result, fetched_at |-> t]]]

\* ------------------------------------------------- POST /api/transactions
\* from the BEGIN to the response; rate is 1 when nothing was looked up
CreateFinish(db, r, rate) ==
    IF db.inTransaction
    THEN \* BEGIN throws inside the try: the catch runs ROLLBACK
         Done(Rollback(db), Respond("create", 500, "Transaction failed", 0))
    ELSE LET id == Len(db.transactions) + 1
             row == [id |-> id, user_id |-> r.user,
                     account_id |-> r.account_id,
                     to_account_id |-> r.to_account_id,
                     date |-> r.date, type |-> r.type, category |-> r.category,
                     amount |-> r.amount, currency |-> TxCurrency(r),
                     converted_amount |-> ConvertedAmount(r, rate),
                     exchange_rate |-> ExchangeRate(r, rate),
                     deleted_at |-> NullText, deleted_reason |-> NullText]
             d1 == Begin(db)
             d2 == [d1 EXCEPT !.transactions = Append(@, row)]
             d3 == IF r.type = "income" /\ r.account_id # 0
                   THEN UpdateBalance(d2, r.amount, r.account_id, r.user)
                   ELSE IF r.type = "expense" /\ r.account_id # 0
                   THEN UpdateBalance(d2, -r.amount, r.account_id, r.user)
                   ELSE IF r.type \in {"transfer", "conversion"}
                           /\ r.account_id # 0 /\ r.to_account_id # 0
                   THEN UpdateBalance(
                            UpdateBalance(d2, -r.amount, r.account_id, r.user),
                            IF r.type = "conversion"
                            THEN ConvertedAmount(r, rate) ELSE r.amount,
                            r.to_account_id, r.user)
                   ELSE d2
         IN Done(Commit(d3), Respond("create", 200, "", id))

\* a create that does not look at the balance of the source account
CreateStart_NoBalanceCheck(db, r) ==
    LET validationError == validateTransactionInput(r) IN
    IF validationError # ""
    THEN Done(db, Respond("create", 400, validationError, 0))
    ELSE IF NeedsLookup(r)
    THEN Suspended(db)
    ELSE CreateFinish(db, r, 1)

\* a create that validates the balance for every type, income included
CreateStart_IncomeChecked(db, r) ==
    LET validationError == validateTransactionInput(r) IN
    IF validationError # ""
    THEN Done(db, Respond("create", 400, validationError, 0))
    ELSE IF r.account_id # 0 /\ ~AccountFound(r.account_id, r.user)
    THEN Done(db, Respond("create", 404, "Source account not found", 0))
    ELSE IF r.account_id # 0
            /\ ~validateSufficientBalance(db.accounts[r.account_id], r.amount).valid
    THEN Done(db, RespondRejected("create", "Insufficient funds",
                 validateSufficientBalance(db.accounts[r.account_id], r.amount), 0))
    ELSE IF NeedsLookup(r)
    THEN Suspended(db)
    ELSE CreateFinish(db, r, 1)

\* from the request to the response, or to the await of convertCurrency
CreateStart(db, r) ==
    LET validationError == validateTransactionInput(r) IN
    IF validationError # ""
    THEN Done(db, Respond("create", 400, validationError, 0))
    ELSE IF r.type \in DebitTypes /\ r.account_id # 0
            /\ ~AccountFound(r.account_id, r.user)
    THEN Done(db, Respond("create", 404, "Source account not found", 0))
    ELSE IF r.type \in DebitTypes /\ r.account_id # 0
            /\ ~validateSufficientBalance(db.accounts[r.account_id], r.amount).valid
    THEN Done(db, RespondRejected("create", "Insufficient funds",
                 validateSufficientBalance(db.accounts[r.account_id], r.amount), 0))
    ELSE IF NeedsLookup(r)
    THEN Suspended(db)
    ELSE CreateFinish(db, r, 1)

\* ---------------------------------------------- PUT /api/transactions/:id
\* from the UPDATE of the row to the response
EditFinish(db, r, rate) ==
    LET d1 == [db EXCEPT !.transactions[r.id] =
                  IF @.user_id = r.user
                  THEN [@ EXCEPT !.account_id = r.account_id,
                                 !.to_account_id = r.to_account_id,
                                 !.date = r.date, !.type = r.type,
                                 !.category = r.category, !.amount = r.amount,
                                 !.currency = TxCurrency(r),
                                 !.converted_amount = ConvertedAmount(r, rate),
                                 !.exchange_rate = ExchangeRate(r, rate)]
                  ELSE @]
        updatedTx == d1.transactions[r.id]
        d2 == applyTransactionEffect(d1, updatedTx, r.user)
        d3 == recordTransactionHistory(d2, updatedTx, "edit", r.user)
    IN IF d3.inTransaction
       THEN Done(Commit(d3), Respond("edit", 200, "", r.id))
       ELSE \* COMMIT throws, the ROLLBACK of the inner catch throws as well
            Done(d3, Respond("edit", 500, "Transaction edit failed", r.id))

\* an edit that does not look at the balance of the new source account
EditStart_NoBalanceCheck(db, r) ==
    LET validationError == validateTransactionInput(r) IN
    IF validationError # ""
    THEN Done(db, Respond("edit", 400, validationError, r.id))
    ELSE IF ~TxFound(db, r.id, r.user, FALSE)
    THEN Done(db, Respond("edit", 404, "Transaction not found", r.id))
    ELSE IF db.inTransaction
    THEN Done(db, Respond("edit", 500, "Transaction edit failed", r.id))
    ELSE LET existingTx == db.transactions[r.id]
             d1 == reverseTransactionEffect(Begin(db), existingTx, r.user)
         IN IF r.type \in DebitTypes /\ r.account_id # 0
               /\ ~AccountFound(r.account_id, r.user)
            THEN Done(Rollback(d1),
                      Respond("edit", 404, "Source account not found", r.id))
            ELSE IF NeedsLookup(r)
            THEN Suspended(d1)
            ELSE EditFinish(d1, r, 1)

\* an edit that validates the new debit against the balance before the
\* reversal of the old effect
EditStart_ValidatesFirst(db, r) ==
    LET validationError == validateTransactionInput(r) IN
    IF validationError # ""
    THEN Done(db, Respond("edit", 400, validationError, r.id))
    ELSE IF ~TxFound(db, r.id, r.user, FALSE)
    THEN Done(db, Respond("edit", 404, "Transaction not found", r.id))
    ELSE IF db.inTransaction
    THEN Done(db, Respond("edit", 500, "Transaction edit failed", r.id))
    ELSE LET existingTx == db.transactions[r.id]
             d1 == reverseTransactionEffect(Begin(db), existingTx, r.user)
         IN IF r.type \in DebitTypes /\ r.account_id # 0
               /\ ~AccountFound(r.account_id, r.user)
            THEN Done(Rollback(d1),
                      Respond("edit", 404, "Source account not found", r.id))
            ELSE IF r.type \in DebitTypes /\ r.account_id # 0
                    /\ ~validateSufficientBalance(db.accounts[r.account_id],
                                                  r.amount).valid
            THEN Done(Rollback(d1),
                      RespondRejected("edit", "Insufficient funds",
                          validateSufficientBalance(db.accounts[r.account_id],
                                                    r.amount), r.id))
            ELSE IF NeedsLookup(r)
            THEN Suspended(d1)
            ELSE EditFinish(d1, r, 1)

\* from the request to the response, or to the await of convertCurrency
EditStart(db, r) ==
    LET validationError == validateTransactionInput(r) IN
    IF validationError # ""
    THEN Done(db, Respond("edit", 400, validationError, r.id))
    ELSE IF ~TxFound(db, r.id, r.user, FALSE)
    THEN Done(db, Respond("edit", 404, "Transaction not found", r.id))
    ELSE IF db.inTransaction
    THEN \* BEGIN throws outside the inner try: no ROLLBACK
         Done(db, Respond("edit", 500, "Transaction edit failed", r.id))
    ELSE LET existingTx == db.transactions[r.id]
             d1 == reverseTransactionEffect(Begin(db), existingTx, r.user)
         IN IF r.type \in DebitTypes /\ r.account_id # 0
               /\ ~AccountFound(r.account_id, r.user)
            THEN Done(Rollback(d1),
                      Respond("edit", 404, "Source account not found", r.id))
            ELSE IF r.type \in DebitTypes /\ r.account_id # 0
                    /\ ~validateSufficientBalance(d1.accounts[r.account_id],
                                                  r.amount).valid
            THEN Done(Rollback(d1),
                      RespondRejected("edit", "Insufficient funds",
                          validateSufficientBalance(d1.accounts[r.account_id],
                                                    r.amount), r.id))
            ELSE IF NeedsLookup(r)
            THEN Suspended(d1)
            ELSE EditFinish(d1, r, 1)

\* ------------------------------------------- DELETE /api/transactions/:id
\* a delete that refuses to take an income back from an account that no
\* longer holds it
DeleteTransaction_Validated(db, userId, id, reason, now) ==
    IF ~TxFound(db, id, userId, FALSE)
    THEN Done(db, Respond("delete", 404, "Transaction not found", id))
    ELSE IF db.inTransaction
    THEN Done(db, Respond("delete", 500, "Transaction delete failed", id))
    ELSE LET transaction == db.transactions[id]
             d1 == reverseTransactionEffect(Begin(db), transaction, userId)
             d2 == [d1 EXCEPT !.transactions[id] =
                       [@ EXCEPT !.deleted_at = now,
                                 !.deleted_reason =
                                     IF reason = "" THEN "User deleted" ELSE reason]]
             d3 == recordTransactionHistory(d2, transaction, "delete", userId)
         IN IF \E a \in AccountIds : d1.accounts[a] < 0 /\ db.accounts[a] >= 0
            THEN Done(Rollback(d1),
                      Respond("delete", 400, "Insufficient balance", id))
            ELSE Done(Commit(d3), Respond("delete", 200, "", id))

\* a delete that removes the row when it is the newest one
DeleteTransaction_Hard(db, userId, id, reason, now) ==
    IF ~TxFound(db, id, userId, FALSE)
    THEN Done(db, Respond("delete", 404, "Transaction not found", id))
    ELSE IF db.inTransaction
    THEN Done(db, Respond("delete", 500, "Transaction delete failed", id))
    ELSE LET transaction == db.transactions[id]
             d1 == reverseTransactionEffect(Begin(db), transaction, userId)
             d2 == IF id = Len(d1.transactions)
                   THEN [d1 EXCEPT !.transactions = SubSeq(@, 1, id - 1)]
                   ELSE [d1 EXCEPT !.transactions[id] =
                            [@ EXCEPT !.deleted_at = now,
                                      !.deleted_reason =
                                          IF reason = "" THEN "User deleted"
                                          ELSE reason]]
             d3 == recordTransactionHistory(d2, transaction, "delete", userId)
         IN Done(Commit(d3), Respond("delete", 200, "", id))

DeleteTransaction(db, userId, id, reason, now) ==
    IF ~TxFound(db, id, userId, FALSE)
    THEN Done(db, Respond("delete", 404, "Transaction not found", id))
    ELSE IF db.inTransaction
    THEN Done(db, Respond("delete", 500, "Transaction delete failed", id))
    ELSE LET transaction == db.transactions[id]
             d1 == reverseTransactionEffect(Begin(db), transaction, userId)
             d2 == [d1 EXCEPT !.transactions[id] =
                       [@ EXCEPT !.deleted_at = now,
                                 !.deleted_reason =
                                     IF reason = "" THEN "User deleted" ELSE reason]]
             d3 == recordTransactionHistory(d2, transaction, "delete", userId)
         IN Done(Commit(d3), Respond("delete", 200, "", id))

\* a restore that validates against nothing
RestoreTransaction_NoValidation(db, userId, id) ==
    IF ~TxFound(db, id, userId, TRUE)
    THEN Done(db, Respond("restore", 404, "Deleted transaction not found", id))
    ELSE IF db.inTransaction
    THEN Done(db, Respond("restore", 500, "Transaction restore failed", id))
    ELSE LET transaction == db.transactions[id]
             d1 == applyTransactionEffect(Begin(db), transaction, userId)
             d2 == [d1 EXCEPT !.transactions[id] =
                       [@ EXCEPT !.deleted_at = NullText,
                                 !.deleted_reason = NullText]]
             d3 == recordTransactionHistory(d2, transaction, "restore", userId)
         IN Done(Commit(d3), Respond("restore", 200, "", id))

\* a restore that clears deleted_at and leaves deleted_reason
RestoreTransaction_KeepsReason(db, userId, id) ==
    IF ~TxFound(db, id, userId, TRUE)
    THEN Done(db, Respond("restore", 404, "Deleted transaction not found", id))
    ELSE IF db.inTransaction
    THEN Done(db, Respond("restore", 500, "Transaction restore failed", id))
    ELSE LET transaction == db.transactions[id]
             d0 == Begin(db)
         IN IF transaction.type \in DebitTypes /\ transaction.account_id # 0
               /\ ~AccountFound(transaction.account_id, userId)
            THEN Done(Rollback(d0),
                      Respond("restore", 404, "Source account not found", id))
            ELSE IF transaction.type \in DebitTypes /\ transaction.account_id # 0
                    /\ ~validateSufficientBalance(
                           d0.accounts[transaction.account_id],
                           transaction.amount).valid
            THEN Done(Rollback(d0),
                      RespondRejected("restore",
                          "Cannot restore: Insufficient funds",
                          validateSufficientBalance(
                              d0.accounts[transaction.account_id],
                              transaction.amount), id))
            ELSE LET d1 == applyTransactionEffect(d0, transaction, userId)
                     d2 == [d1 EXCEPT !.transactions[id] =
                               [@ EXCEPT !.deleted_at = NullText]]
                     d3 == recordTransactionHistory(d2, transaction,
                                                    "restore", userId)
                 IN Done(Commit(d3), Respond("restore", 200, "", id))

\* ------------------------------------- POST /api/transactions/:id/restore
RestoreTransaction(db, userId, id) ==
    IF ~TxFound(db, id, userId, TRUE)
    THEN Done(db, Respond("restore", 404, "Deleted transaction not found", id))
    ELSE IF db.inTransaction
    THEN Done(db, Respond("restore", 500, "Transaction restore failed", id))
    ELSE LET transaction == db.transactions[id]
             d0 == Begin(db)
         IN IF transaction.type \in DebitTypes /\ transaction.account_id # 0
               /\ ~AccountFound(transaction.account_id, userId)
            THEN Done(Rollback(d0),
                      Respond("restore", 404, "Source account not found", id))
            ELSE IF transaction.type \in DebitTypes /\ transaction.account_id # 0
                    /\ ~validateSufficientBalance(
                           d0.accounts[transaction.account_id],
                           transaction.amount).valid
            THEN Done(Rollback(d0),
                      RespondRejected("restore",
                          "Cannot restore: Insufficient funds",
                          validateSufficientBalance(
                              d0.accounts[transaction.account_id],
                              transaction.amount), id))
            ELSE LET d1 == applyTransactionEffect(d0, transaction, userId)
                     d2 == [d1 EXCEPT !.transactions[id] =
                               [@ EXCEPT !.deleted_at = NullText,
                                         !.deleted_reason = NullText]]
                     d3 == recordTransactionHistory(d2, transaction,
                                                    "restore", userId)
                 IN Done(Commit(d3), Respond("restore", 200, "", id))

\* ------------------------------------------------ GET /api/transactions
\* a list that does not look at the deletion marker
ListTransactions_All(db, userId) ==
    {i \in 1..Len(db.transactions) : db.transactions[i].user_id = userId}

\* the ids of the rows the query without filters answers: WHERE t.user_id = ?
\* AND t.deleted_at IS NULL (the joins are on primary keys and add no row)
ListTransactions(db, userId) ==
    {i \in 1..Len(db.transactions) :
        /\ db.transactions[i].user_id = userId
        /\ db.transactions[i].deleted_at = NullText}

\* ------------------------------------------ GET /api/transactions/trash
\* WHERE t.user_id = ? AND t.deleted_at IS NOT NULL
Trash(db, userId) ==
    {i \in 1..Len(db.transactions) :
        /\ db.transactions[i].user_id = userId
        /\ db.transactions[i].deleted_at # NullText}

\* SELECT COUNT(*) as total FROM transactions
\* WHERE user_id = ? AND deleted_at IS NOT NULL
TrashTotal(db, userId) == Cardinality(Trash(db, userId))

\* ------------------------------------- GET /api/reports/audit-trail
\* a report that counts every transaction that was ever deleted
AuditTrail_EverDeleted(db, userId) ==
    [deletedCount |->
         Cardinality({i \in 1..Len(db.transactions) :
             /\ db.transactions[i].user_id = userId
             /\ \E k \in 1..Len(db.transaction_history) :
                    /\ db.transaction_history[k].transaction_id = i
                    /\ db.transaction_history[k].action = "delete"}),
     editCount |->
         Cardinality({k \in 1..Len(db.transaction_history) :
             /\ db.transaction_history[k].user_id = userId
             /\ db.transaction_history[k].action = "edit"})]

\* the report without start_date and end_date: deletedCount and editCount
AuditTrail(db, userId) ==
    [deletedCount |->
         Cardinality({i \in 1..Len(db.transactions) :
             /\ db.transactions[i].user_id = userId
             /\ db.transactions[i].deleted_at # NullText}),
     editCount |->
         Cardinality({k \in 1..Len(db.transaction_history) :
             /\ db.transaction_history[k].user_id = userId
             /\ db.transaction_history[k].action = "edit"})]

\* ------------------------------------------------------------- the requests
Amounts == 0..MaxAmount
Reasons == {"", "duplicate"}

Body(user, type, amount, account_id, to_account_id, currency) ==
    [user |-> user, id |-> 0, type |-> type, amount |-> amount,
     account_id |-> account_id, to_account_id |-> to_account_id,
     currency |-> currency, date |-> "2026-01-01", category |-> "food"]

\* request bodies that pass validateTransactionInput: expenses of every
\* amount on the requester's first account, and one of each other kind
ShapedBodies ==
    {Body(1, "expense", a, 1, 0, "") : a \in Amounts}
    \cup {Body(1, "income", 1, 1, 0, ""),
          Body(1, "income", 1, 3, 0, ""),
          Body(1, "expense", 1, 3, 0, ""),
          Body(1, "expense", 1, 1, 0, "EUR"),
          Body(1, "transfer", 1, 1, 2, ""),
          Body(1, "transfer", 1, 1, 3, ""),
          Body(1, "conversion", 1, 1, 2, "2"),
          Body(2, "income", 1, 3, 0, "")}

\* request bodies that validateTransactionInput rejects: a negative amount,
\* no date, a transfer without destination, a conversion without source, a
\* transfer from an account to itself
MalformedBodies ==
    {Body(1, "expense", -1, 1, 0, ""),
     [Body(1, "expense", 1, 1, 0, "") EXCEPT !.date = ""],
     Body(1, "transfer", 1, 1, 0, ""),
     Body(1, "conversion", 1, 0, 2, ""),
     Body(1, "transfer", 1, 1, 1, "")}

Bodies == ShapedBodies \cup MalformedBodies

\* ids a request may name: a row's id, or no row's while the table is not full
TxIds == 1..MaxOps

NoRequest == [user |-> 0, id |-> 0, type |-> "", amount |-> 0, account_id |-> 0,
              to_account_id |-> 0, currency |-> "", date |-> "", category |-> ""]

\* ------------------------------------------------------------- the machine
Init ==
    /\ accounts = InitialBalance
    /\ transactions = <<>>
    /\ transaction_history = <<>>
    /\ inTransaction = FALSE
    /\ snapshot = NoTables
    /\ pc = [p \in Procs |-> "idle"]
    /\ req = [p \in Procs |-> NoRequest]
    /\ response = NoResponse
    /\ exchangeRateCache = [k \in CacheKeys |-> NoCached]
    /\ exchange_rates = [k \in CacheKeys |-> NoRate]
    /\ clock = 0
    /\ lookup = NoLookup
    /\ issued = <<>>

\* A request is taken when handler p is idle.  A behaviour is not followed
\* beyond a request that was answered without any change to the database
\* (response.changed is the model's note of that): the state it leaves
\* differs from the state it found in the response only, so every state of
\* the tables is reached without it.
\* Idle handlers are interchangeable: the request goes to the first of them.
Ready(p) ==
    /\ pc[p] = "idle"
    /\ \A q \in Procs : q < p => pc[q] # "idle"
    /\ response.op = "none" \/ response.changed

\* handler p, serving r, leaves out behind; awaitPc is where it suspends
Answer(p, r, out, awaitPc) ==
    /\ pc' = [pc EXCEPT ![p] = IF out.suspended THEN awaitPc ELSE "idle"]
    /\ Len(out.db.transactions) + Len(out.db.transaction_history)
         + Cardinality({q \in Procs : pc'[q] # "idle"}) <= MaxOps
    /\ req' = [req EXCEPT ![p] = IF out.suspended THEN r ELSE NoRequest]
    /\ response' = IF out.suspended THEN response
                   ELSE [out.response EXCEPT !.changed = (out.db # DB)]
    /\ accounts' = out.db.accounts
    /\ transactions' = out.db.transactions
    /\ transaction_history' = out.db.transaction_history
    /\ inTransaction' = out.db.inTransaction
    /\ snapshot' = out.db.snapshot

\* the same, by a handler whose lookup the model leaves to the choice of a
\* rate: the caches and the clock are not looked at
Handle(p, r, out, awaitPc) ==
    /\ Answer(p, r, out, awaitPc)
    /\ UNCHANGED rateVars
    /\ UNCHANGED issued

\* POST /api/transactions, up to its response or its await
Create(p) ==
    /\ Ready(p)
    /\ \E r \in Bodies : Handle(p, r, CreateStart(DB, r), "create_await")

\* POST /api/transactions, the lookup has answered
CreateResume(p) ==
    /\ pc[p] = "create_await"
    /\ \E rate \in LookupRates :
           Handle(p, req[p], CreateFinish(DB, req[p], rate), "create_await")

\* PUT /api/transactions/:id, up to its response or its await
Edit(p) ==
    /\ Ready(p)
    /\ \E b \in Bodies, id \in TxIds :
           LET r == [b EXCEPT !.id = id]
           IN Handle(p, r, EditStart(DB, r), "edit_await")

\* PUT /api/transactions/:id, the lookup has answered
EditResume(p) ==
    /\ pc[p] = "edit_await"
    /\ \E rate \in LookupRates :
           Handle(p, req[p], EditFinish(DB, req[p], rate), "edit_await")

\* DELETE /api/transactions/:id
Delete(p) ==
    /\ Ready(p)
    /\ \E u \in Users, id \in TxIds, reason \in Reasons, now \in Times :
           Handle(p, NoRequest, DeleteTransaction(DB, u, id, reason, now), "idle")

\* POST /api/transactions/:id/restore
Restore(p) ==
    /\ Ready(p)
    /\ \E u \in Users, id \in TxIds :
           Handle(p, NoRequest, RestoreTransaction(DB, u, id), "idle")

Step(p) ==
    \/ Create(p)
    \/ CreateResume(p)
    \/ Edit(p)
    \/ EditResume(p)
    \/ Delete(p)
    \/ Restore(p)

\* requests one at a time: a request is taken when the previous one has
\* been answered
Next == Step(1)

Spec == Init /\ [][Next]_vars

\* requests as express schedules them: a second request is taken while the
\* first is suspended in an await
NextConc == \E p \in Procs : Step(p)

SpecConc == Init /\ [][NextConc]_vars

\* the fetch of the lookup is made without a timeout: the network may leave
\* it unanswered for ever, and the handler that awaits it is never resumed
LookupHangs(p) ==
    /\ pc[p] \in {"create_await", "edit_await"}
    /\ pc' = [pc EXCEPT ![p] = "hung"]
    /\ UNCHANGED <<accounts, transactions, transaction_history, inTransaction,
                   snapshot, req, response>>
    /\ UNCHANGED rateVars
    /\ UNCHANGED issued

\* requests one at a time over a network that may not answer
NextLive == Step(1) \/ LookupHangs(1)

\* the event loop runs the continuation of an await once the awaited
\* promise has settled; nothing makes the network settle it
SpecLive ==
    /\ Init
    /\ [][NextLive]_vars
    /\ WF_vars(CreateResume(1))
    /\ WF_vars(EditResume(1))

\* ------------------------------------ requests with the lookup spelled out
\* bodies in a foreign currency
RateBodies ==
    {Body(1, "income", 1, 1, 0, "EUR"),
     Body(1, "expense", 1, 1, 0, "GBP")}

LookupOf(r, c) == [source |-> c.source, key |-> cacheKey(TxCurrency(r), UserCurrency),
                   rate |-> c.rate]

\* POST /api/transactions, up to its response or to the fetch of the rate
RatesCreate(p) ==
    /\ Ready(p)
    /\ UNCHANGED issued
    /\ \E r \in RateBodies :
         LET start == CreateStart(DB, r)
             c == fetchExchangeRateCached(exchangeRateCache, exchange_rates,
                                          TxCurrency(r), UserCurrency, clock)
         IN IF ~start.suspended
            THEN /\ Answer(p, r, start, "create_await")
                 /\ lookup' = NoLookup
                 /\ UNCHANGED <<exchangeRateCache, exchange_rates, clock>>
            ELSE IF c.settled
            THEN /\ Answer(p, r, CreateFinish(start.db, r, c.rate), "create_await")
                 /\ exchangeRateCache' = c.cache
                 /\ lookup' = LookupOf(r, c)
                 /\ UNCHANGED <<exchange_rates, clock>>
            ELSE /\ Answer(p, r, start, "create_await")
                 /\ lookup' = LookupOf(r, c)
                 /\ UNCHANGED <<exchangeRateCache, exchange_rates, clock>>

\* POST /api/transactions, the fetch has come back
RatesCreateResume(p) ==
    /\ pc[p] = "create_await"
    /\ UNCHANGED issued
    /\ \E payload \in FetchPayloads :
         LET f == fetchExchangeRateFetched(exchangeRateCache, exchange_rates,
                      TxCurrency(req[p]), UserCurrency, payload, clock)
         IN /\ Answer(p, req[p], CreateFinish(DB, req[p], f.rate), "create_await")
            /\ exchangeRateCache' = f.cache
            /\ exchange_rates' = f.rates
            /\ lookup' = LookupOf(req[p], f)
            /\ UNCHANGED clock

\* PUT /api/transactions/:id, up to its response or to the fetch of the rate
RatesEdit(p) ==
    /\ Ready(p)
    /\ UNCHANGED issued
    /\ \E b \in RateBodies, id \in TxIds :
         LET r == [b EXCEPT !.id = id]
             start == EditStart(DB, r)
             c == fetchExchangeRateCached(exchangeRateCache, exchange_rates,
                                          TxCurrency(r), UserCurrency, clock)
         IN IF ~start.suspended
            THEN /\ Answer(p, r, start, "edit_await")
                 /\ lookup' = NoLookup
                 /\ UNCHANGED <<exchangeRateCache, exchange_rates, clock>>
            ELSE IF c.settled
            THEN /\ Answer(p, r, EditFinish(start.db, r, c.rate), "edit_await")
                 /\ exchangeRateCache' = c.cache
                 /\ lookup' = LookupOf(r, c)
                 /\ UNCHANGED <<exchange_rates, clock>>
            ELSE /\ Answer(p, r, start, "edit_await")
                 /\ lookup' = LookupOf(r, c)
                 /\ UNCHANGED <<exchangeRateCache, exchange_rates, clock>>

\* PUT /api/transactions/:id, the fetch has come back
RatesEditResume(p) ==
    /\ pc[p] = "edit_await"
    /\ UNCHANGED issued
    /\ \E payload \in FetchPayloads :
         LET f == fetchExchangeRateFetched(exchangeRateCache, exchange_rates,
                      TxCurrency(req[p]), UserCurrency, payload, clock)
         IN /\ Answer(p, req[p], EditFinish(DB, req[p], f.rate), "edit_await")
            /\ exchangeRateCache' = f.cache
            /\ exchange_rates' = f.rates
            /\ lookup' = LookupOf(req[p], f)
            /\ UNCHANGED clock

\* time passes; the clock counts from the first rate that is stored, no
\* lookup looks at the time before that
Tick ==
    /\ clock < MaxClock
    /\ exchange_rates # [k \in CacheKeys |-> NoRate]
    /\ clock' = clock + 1
    /\ lookup' = NoLookup
    /\ UNCHANGED <<accounts, transactions, transaction_history, inTransaction,
                   snapshot, pc, req, response, exchangeRateCache, exchange_rates,
                   issued>>

\* let exchangeRateCache = {}: the server starts again, with no request in
\* flight, and the table keeps its rows
Restart ==
    /\ \A p \in Procs : pc[p] = "idle"
    /\ exchangeRateCache # [k \in CacheKeys |-> NoCached]
    /\ exchangeRateCache' = [k \in CacheKeys |-> NoCached]
    /\ lookup' = NoLookup
    /\ UNCHANGED <<accounts, transactions, transaction_history, inTransaction,
                   snapshot, pc, req, response, exchange_rates, clock, issued>>

\* creates and edits one at a time, each with its lookup
NextRates ==
    \/ RatesCreate(1)
    \/ RatesCreateResume(1)
    \/ RatesEdit(1)
    \/ RatesEditResume(1)
    \/ Tick
    \/ Restart

SpecRates == Init /\ [][NextRates]_vars

TypeOK ==
    /\ accounts \in [AccountIds -> Int]
    /\ inTransaction \in BOOLEAN
    /\ pc \in [Procs -> {"idle", "create_await", "edit_await", "hung"}]
    /\ clock \in 0..MaxClock
    /\ lookup.source \in {"none", "same", "memory", "db", "fetching",
                          "fetched", "fallback"}

\* ================================================================ claims
\* no handler is suspended and the connection has no open transaction
Quiescent == (\A p \in Procs : pc[p] = "idle") /\ ~inTransaction

\* the next request is taken in this state, with no other request in flight
Serving == Quiescent /\ \E p \in Procs : Ready(p)

\* the step answers a request that was taken in this very step
AnsweredAtOnce == pc' = pc /\ response'.op # "none"

TablesUnchanged ==
    /\ accounts' = accounts
    /\ transactions' = transactions
    /\ transaction_history' = transaction_history

\* the effect of transaction t on account a, as the specification tabulates it
EffectOn(t, a) ==
    (IF t.account_id = a
     THEN (IF t.type = "income" THEN t.amount ELSE -t.amount)
     ELSE 0)
    + (IF t.to_account_id = a /\ t.type \in {"transfer", "conversion"}
       THEN (IF t.type = "conversion" /\ t.converted_amount # 0
             THEN t.converted_amount ELSE t.amount)
       ELSE 0)

RECURSIVE SumEffects(_, _, _)
\* the sum of the effects on a of the first n rows that are not deleted
SumEffects(txs, n, a) ==
    IF n = 0 THEN 0
    ELSE SumEffects(txs, n - 1, a)
         + (IF txs[n].deleted_at = NullText THEN EffectOn(txs[n], a) ELSE 0)

\* C1: after every successful create, edit, delete or restore, every
\* account's balance is >= 0 (all balances are >= 0 initially).
C1_NoNegativeBalance ==
    (Quiescent /\ response.status = 200) => \A a \in AccountIds : accounts[a] >= 0

\* C2: reconciliation.  Whenever no request is in flight, each account's
\* balance is its initial balance plus the sum of the effects of the
\* transactions that reference it and are not deleted.
C2_Reconciliation ==
    Quiescent =>
        \A a \in AccountIds :
            accounts[a] = InitialBalance[a]
                          + SumEffects(transactions, Len(transactions), a)

\* C3: an edit rejected for insufficient funds leaves the transaction rows,
\* the balances and the history as they were, and no unit of work open.
C3_RejectedEditChangesNothing ==
    [][(AnsweredAtOnce /\ response'.op = "edit" /\ response'.status = 400
        /\ response'.error = "Insufficient funds")
       => (TablesUnchanged /\ inTransaction' = inTransaction)]_vars

C3_Witness ==
    /\ response.op = "edit" /\ response.status = 400
    /\ response.error = "Insufficient funds"
    /\ response.availableBalance > accounts[transactions[response.id].account_id]

\* C4: a restore of a deleted debit whose amount exceeds the current balance
\* of its source account is answered 400 'Cannot restore: Insufficient funds'
\* with the shortfall, and changes nothing: the row stays deleted with its
\* deleted_at and deleted_reason, no balance moves, no history row is added.
C4_RestoreRejected ==
    Serving =>
        \A u \in Users, id \in TxIds :
            (/\ TxFound(DB, id, u, TRUE)
             /\ transactions[id].type \in DebitTypes
             /\ AccountFound(transactions[id].account_id, u)
             /\ transactions[id].amount > accounts[transactions[id].account_id])
            => LET out == RestoreTransaction(DB, u, id)
                   balance == accounts[transactions[id].account_id]
               IN /\ out.db = DB
                  /\ ~out.suspended
                  /\ out.response =
                       [op |-> "restore", status |-> 400,
                        error |-> "Cannot restore: Insufficient funds",
                        availableBalance |-> balance,
                        attemptedAmount |-> transactions[id].amount,
                        shortfall |-> transactions[id].amount - balance,
                        id |-> id, changed |-> FALSE]

C4_Witness ==
    /\ response.op = "restore" /\ response.status = 400
    /\ response.error = "Cannot restore: Insufficient funds"
    /\ transactions[response.id].deleted_at # NullText
    /\ transactions[response.id].deleted_reason # NullText

\* C5: a create of an expense, transfer or conversion whose amount exceeds
\* the balance of the requester's source account is rejected and changes
\* nothing: no row is inserted and no balance moves.
C5_CreateRejectedNoSideEffect ==
    Serving =>
        \A r \in Bodies :
            (/\ validateTransactionInput(r) = ""
             /\ r.type \in DebitTypes
             /\ AccountFound(r.account_id, r.user)
             /\ r.amount > accounts[r.account_id])
            => LET out == CreateStart(DB, r)
               IN /\ out.db = DB
                  /\ ~out.suspended
                  /\ out.response.status = 400
                  /\ out.response.error = "Insufficient funds"

C5_Witness ==
    /\ response.op = "create" /\ response.status = 400
    /\ response.error = "Insufficient funds"
    /\ \E a \in AccountIds : accounts[a] = response.availableBalance

\* C6: debits of one account are serialized.  A create that was validated
\* and then succeeds debits a balance that still covers its amount, so two
\* concurrent creates that each fit the balance but together exceed it
\* never both succeed.
C6_DebitsSerialized ==
    [][\A p \in Procs :
          (/\ pc[p] = "create_await" /\ pc'[p] = "idle"
           /\ response'.op = "create" /\ response'.status = 200
           /\ req[p].type \in DebitTypes)
          => accounts[req[p].account_id] >= req[p].amount]_vars

\* C7: a request never ends a unit of work that another request opened, the
\* new effect of an edit is applied inside the unit that holds the reversal
\* of its old effect, and an edit that answers with an error adds no history
\* row.
C7_UnitsOfWorkIsolated ==
    [][/\ (response'.op = "create" /\ response' # response /\ inTransaction)
              => inTransaction'
       /\ \A p \in Procs :
              (pc[p] = "edit_await" /\ pc'[p] = "idle") => inTransaction
       /\ (response'.op = "edit" /\ response' # response
           /\ response'.status # 200)
              => Len(transaction_history') <= Len(transaction_history)]_vars

\* C8: a debit of X validated against a balance B < X is refused with
\* error 'Insufficient funds', availableBalance B, attemptedAmount X and
\* shortfall X - B; a create relays exactly that payload.
C8_RejectionPayload ==
    /\ \A a \in AccountIds, X \in Amounts :
           X > accounts[a]
           => validateSufficientBalance(accounts[a], X) =
                  [valid |-> FALSE, error |-> "Insufficient funds",
                   availableBalance |-> accounts[a], attemptedAmount |-> X,
                   shortfall |-> X - accounts[a]]
    /\ Serving =>
           \A r \in Bodies :
               (/\ validateTransactionInput(r) = ""
                /\ r.type \in DebitTypes
                /\ AccountFound(r.account_id, r.user)
                /\ r.amount > accounts[r.account_id])
               => CreateStart(DB, r).response =
                      [op |-> "create", status |-> 400,
                       error |-> "Insufficient funds",
                       availableBalance |-> accounts[r.account_id],
                       attemptedAmount |-> r.amount,
                       shortfall |-> r.amount - accounts[r.account_id],
                       id |-> 0, changed |-> FALSE]

C8_Witness ==
    /\ response.status = 400 /\ response.error = "Insufficient funds"
    /\ response.attemptedAmount > response.availableBalance
    /\ response.shortfall = response.attemptedAmount - response.availableBalance
    /\ response.shortfall > 0

\* C9: validation accepts a debit exactly when amount <= balance; a create
\* of an expense whose amount equals the balance of the requester's source
\* account succeeds, whatever the lookup answers, and leaves that balance 0.
C9_BoundaryAccepted ==
    /\ \A a \in AccountIds, X \in Amounts :
           validateSufficientBalance(accounts[a], X).valid <=> X <= accounts[a]
    /\ Serving =>
           \A r \in Bodies, rate \in LookupRates :
               (/\ validateTransactionInput(r) = ""
                /\ r.type = "expense"
                /\ AccountFound(r.account_id, r.user)
                /\ r.amount = accounts[r.account_id])
               => LET start == CreateStart(DB, r)
                      out == IF start.suspended
                             THEN CreateFinish(start.db, r, rate) ELSE start
                  IN /\ out.response.status = 200
                     /\ out.db.accounts[r.account_id] = 0
                     /\ Len(out.db.transactions) = Len(transactions) + 1

C9_Witness ==
    /\ response.op = "create" /\ response.status = 200
    /\ transactions[response.id].type = "expense"
    /\ transactions[response.id].amount > 0
    /\ AccountFound(transactions[response.id].account_id,
                    transactions[response.id].user_id)
    /\ accounts[transactions[response.id].account_id] = 0

\* C10: a delete followed at once by a successful restore of the same
\* transaction returns every balance and the whole row (descriptor,
\* deleted_at, deleted_reason) to what they were before the delete.
C10_DeleteRestoreRoundTrip ==
    Serving =>
        \A u \in Users, id \in TxIds, reason \in Reasons, now \in Times :
            TxFound(DB, id, u, FALSE)
            => LET deleted == DeleteTransaction(DB, u, id, reason, now)
                   restored == RestoreTransaction(deleted.db, u, id)
               IN /\ deleted.response.status = 200
                  /\ deleted.db.transactions[id].deleted_at # NullText
                  /\ restored.response.status = 200
                     => /\ restored.db.accounts = accounts
                        /\ restored.db.transactions = transactions

C10_Witness ==
    /\ response.op = "restore" /\ response.status = 200
    /\ Len(transaction_history) >= 2
    /\ LET n == Len(transaction_history)
       IN /\ transaction_history[n].action = "restore"
          /\ transaction_history[n - 1].action = "delete"
          /\ transaction_history[n].transaction_id = response.id
          /\ transaction_history[n - 1].transaction_id = response.id
    /\ transactions[response.id].deleted_at = NullText
    /\ transactions[response.id].type \in {"transfer", "conversion"}

\* a request served with no other request in flight: the handler runs to
\* its await, the lookup answers rate, the handler runs to its response
EditOutcome(db, r, rate) ==
    LET start == EditStart(db, r)
    IN IF start.suspended THEN EditFinish(start.db, r, rate) ELSE start

CreateOutcome(db, r, rate) ==
    LET start == CreateStart(db, r)
    IN IF start.suspended THEN CreateFinish(start.db, r, rate) ELSE start

\* the rates the lookup may answer to the handler of r: the lookup is made
\* only when the request needs one, and the handler keeps rate 1 otherwise
RatesFor(r) == IF NeedsLookup(r) THEN LookupRates ELSE {1}

RECURSIVE SumOver(_, _)
\* the sum of the balances bal of the accounts in S
SumOver(bal, S) ==
    IF S = {} THEN 0
    ELSE LET a == CHOOSE x \in S : TRUE
         IN bal[a] + SumOver(bal, S \ {a})

\* the sum of the balances of all accounts of user u
UserTotal(bal, u) == SumOver(bal, {a \in AccountIds : AccountOwner[a] = u})

\* C11: a successful edit of a transaction from descriptor d1 to descriptor
\* d2 changes the balance of every account by exactly the effect of d2 on
\* it minus the effect of d1 on it (0 for the accounts neither references).
C11_EditDelta ==
    Serving =>
        \A b \in Bodies, id \in TxIds, rate \in LookupRates :
            LET r == [b EXCEPT !.id = id]
                out == EditOutcome(DB, r, rate)
            IN out.response.status = 200
               => \A a \in AccountIds :
                      out.db.accounts[a] - accounts[a]
                          = EffectOn(out.db.transactions[id], a)
                            - EffectOn(transactions[id], a)

\* C12: transfer conservation.  A successful create, delete or restore of a
\* transfer, and a successful edit of a transfer into a transfer, leaves
\* the sum of the balances of the requesting user's accounts unchanged;
\* for a create the source and the destination move by equal and opposite
\* amounts.
C12_TransferConservation ==
    Serving =>
        /\ \A r \in Bodies :
               LET out == CreateStart(DB, r)
               IN (r.type = "transfer" /\ out.response.status = 200)
                  => /\ UserTotal(out.db.accounts, r.user)
                          = UserTotal(accounts, r.user)
                     /\ out.db.accounts[r.account_id] - accounts[r.account_id]
                          = -(out.db.accounts[r.to_account_id]
                              - accounts[r.to_account_id])
        /\ \A b \in Bodies, id \in TxIds :
               LET r == [b EXCEPT !.id = id]
                   out == EditStart(DB, r)
               IN (/\ r.type = "transfer" /\ out.response.status = 200
                   /\ transactions[id].type = "transfer")
                  => UserTotal(out.db.accounts, r.user)
                         = UserTotal(accounts, r.user)
        /\ \A u \in Users, id \in TxIds, reason \in Reasons, now \in Times :
               LET out == DeleteTransaction(DB, u, id, reason, now)
               IN (out.response.status = 200
                   /\ transactions[id].type = "transfer")
                  => UserTotal(out.db.accounts, u) = UserTotal(accounts, u)
        /\ \A u \in Users, id \in TxIds :
               LET out == RestoreTransaction(DB, u, id)
               IN (out.response.status = 200
                   /\ transactions[id].type = "transfer")
                  => UserTotal(out.db.accounts, u) = UserTotal(accounts, u)

\* the fields of a transactions row, or of a history row, that a snapshot
\* of the transaction holds
Descriptor(x) ==
    [account_id |-> x.account_id, to_account_id |-> x.to_account_id,
     date |-> x.date, type |-> x.type, category |-> x.category,
     amount |-> x.amount, currency |-> x.currency,
     converted_amount |-> x.converted_amount,
     exchange_rate |-> x.exchange_rate]

\* history is history0 and one more row, tagged action, written by userId
\* for transaction id with the snapshot of transaction
OneRowAppended(history, history0, action, userId, id, transaction) ==
    /\ Len(history) = Len(history0) + 1
    /\ SubSeq(history, 1, Len(history0)) = history0
    /\ history[Len(history)].action = action
    /\ history[Len(history)].user_id = userId
    /\ history[Len(history)].transaction_id = id
    /\ Descriptor(history[Len(history)]) = Descriptor(transaction)

\* C13: every successful edit, delete or restore appends exactly one
\* history row, tagged 'edit', 'delete' or 'restore', whose snapshot equals
\* the descriptor used for the effect of the action: the new descriptor for
\* an edit, the stored descriptor for a delete and for a restore.
C13_OneHistoryRowPerAction ==
    Serving =>
        /\ \A b \in Bodies, id \in TxIds, rate \in LookupRates :
               LET r == [b EXCEPT !.id = id]
                   out == EditOutcome(DB, r, rate)
               IN out.response.status = 200
                  => OneRowAppended(out.db.transaction_history,
                                    transaction_history, "edit", r.user, id,
                                    out.db.transactions[id])
        /\ \A u \in Users, id \in TxIds, reason \in Reasons, now \in Times :
               LET out == DeleteTransaction(DB, u, id, reason, now)
               IN out.response.status = 200
                  => OneRowAppended(out.db.transaction_history,
                                    transaction_history, "delete", u, id,
                                    transactions[id])
        /\ \A u \in Users, id \in TxIds :
               LET out == RestoreTransaction(DB, u, id)
               IN out.response.status = 200
                  => OneRowAppended(out.db.transaction_history,
                                    transaction_history, "restore", u, id,
                                    transactions[id])

\* C14: the history records every mutation, create included: a successful
\* create appends a history row tagged 'create' for the new transaction.
C14_CreateRecorded ==
    Serving =>
        \A r \in Bodies, rate \in LookupRates :
            LET out == CreateOutcome(DB, r, rate)
                history == out.db.transaction_history
            IN out.response.status = 200
               => /\ Len(history) = Len(transaction_history) + 1
                  /\ history[Len(history)].action = "create"
                  /\ history[Len(history)].transaction_id = out.response.id

\* C15: transaction_history is append-only.  Every step, a ROLLBACK
\* included, leaves every existing history row in place and unchanged, so
\* the number of rows never decreases.
C15_HistoryAppendOnly ==
    [][/\ Len(transaction_history') >= Len(transaction_history)
       /\ SubSeq(transaction_history', 1, Len(transaction_history))
              = transaction_history]_vars

\* a create has rolled back the unit of work that a suspended edit had
\* opened, and the history row written before that unit is still there
C15_Witness ==
    /\ response.op = "create" /\ response.status = 500
    /\ \E p \in Procs : pc[p] = "edit_await"
    /\ ~inTransaction
    /\ Len(transaction_history) >= 1

\* C16: an edit or a delete of a transaction that is already deleted
\* changes nothing (no balance, no row, no history row, no unit of work
\* left open) and is answered 404 'Transaction not found'; an edit whose
\* body is malformed is answered 400 before the transaction is looked up.
C16_DeletedIsNotFound ==
    Serving =>
        \A u \in Users, id \in TxIds :
            (/\ id <= Len(transactions)
             /\ transactions[id].user_id = u
             /\ transactions[id].deleted_at # NullText)
            => /\ \A b \in Bodies :
                      b.user = u
                      => LET r == [b EXCEPT !.id = id]
                             out == EditStart(DB, r)
                         IN /\ out.db = DB
                            /\ ~out.suspended
                            /\ out.response.status =
                                 IF validateTransactionInput(r) = ""
                                 THEN 404 ELSE 400
                            /\ validateTransactionInput(r) = ""
                               => out.response.error = "Transaction not found"
               /\ \A reason \in Reasons, now \in Times :
                      DeleteTransaction(DB, u, id, reason, now)
                          = Done(DB, Respond("delete", 404,
                                             "Transaction not found", id))

C16_Witness ==
    /\ response.op = "delete" /\ response.status = 404
    /\ response.id <= Len(transactions)
    /\ transactions[response.id].deleted_at # NullText
    /\ Len(transaction_history) = 1
    /\ accounts = InitialBalance

\* C17: a restore of a transaction that is active is answered 404
\* 'Deleted transaction not found' and changes nothing: the effect of a
\* transaction is not applied while it is applied already.
C17_ActiveIsNotRestored ==
    Serving =>
        \A u \in Users, id \in TxIds :
            (/\ id <= Len(transactions)
             /\ transactions[id].user_id = u
             /\ transactions[id].deleted_at = NullText)
            => RestoreTransaction(DB, u, id)
                   = Done(DB, Respond("restore", 404,
                                      "Deleted transaction not found", id))

C17_Witness ==
    /\ response.op = "restore" /\ response.status = 404
    /\ response.id <= Len(transactions)
    /\ transactions[response.id].deleted_at = NullText
    /\ accounts # InitialBalance

\* C18: a create or an edit of a transfer or conversion whose destination
\* account is not an account of the requesting user is rejected, and no
\* balance changes: the source is never debited without the destination
\* being credited.
C18_DestinationValidated ==
    Serving =>
        \A b \in Bodies, rate \in LookupRates :
            (/\ validateTransactionInput(b) = ""
             /\ b.type \in {"transfer", "conversion"}
             /\ ~AccountFound(b.to_account_id, b.user))
            => /\ LET out == CreateOutcome(DB, b, rate)
                  IN /\ out.response.status # 200
                     /\ out.db.accounts = accounts
               /\ \A id \in TxIds :
                      LET out == EditOutcome(DB, [b EXCEPT !.id = id], rate)
                      IN /\ out.response.status # 200
                         /\ out.db.accounts = accounts

\* db leaves the accounts of the users other than u, and their
\* transactions, as they are in the current state
OthersUntouched(db, u) ==
    /\ \A a \in AccountIds :
           AccountOwner[a] # u => db.accounts[a] = accounts[a]
    /\ Len(db.transactions) >= Len(transactions)
    /\ \A i \in 1..Len(transactions) :
           transactions[i].user_id # u => db.transactions[i] = transactions[i]

\* C19: user isolation.  No step of a create, edit, delete or restore
\* request of user u, taken while a handler is free or resumed after its
\* await, changes the balance of an account of another user or a field of
\* a transaction of another user; an edit, delete or restore by u of a
\* transaction of another user is answered 404.
C19_UserIsolation ==
    /\ \A b \in Bodies :
           (\E p \in Procs : pc[p] = "idle") =>
           /\ OthersUntouched(CreateStart(DB, b).db, b.user)
           /\ \A id \in TxIds :
                  LET r == [b EXCEPT !.id = id]
                      out == EditStart(DB, r)
                  IN /\ OthersUntouched(out.db, b.user)
                     /\ (/\ id <= Len(transactions)
                         /\ transactions[id].user_id # b.user
                         /\ validateTransactionInput(r) = "")
                        => out.response.status = 404
    /\ \A u \in Users, id \in TxIds :
           (\E p \in Procs : pc[p] = "idle") =>
           /\ \A reason \in Reasons, now \in Times :
                  LET out == DeleteTransaction(DB, u, id, reason, now)
                  IN /\ OthersUntouched(out.db, u)
                     /\ (id <= Len(transactions)
                         /\ transactions[id].user_id # u)
                        => out.response.status = 404
           /\ LET out == RestoreTransaction(DB, u, id)
              IN /\ OthersUntouched(out.db, u)
                 /\ (id <= Len(transactions) /\ transactions[id].user_id # u)
                    => out.response.status = 404
    /\ \A p \in Procs, rate \in LookupRates :
           /\ pc[p] = "create_await"
              => OthersUntouched(CreateFinish(DB, req[p], rate).db, req[p].user)
           /\ pc[p] = "edit_await"
              => OthersUntouched(EditFinish(DB, req[p], rate).db, req[p].user)

C21_ListOrTrash ==
    /\ \A u \in Users, i \in 1..Len(transactions) :
           /\ transactions[i].user_id = u
              => /\ (i \in ListTransactions(DB, u)) # (i \in Trash(DB, u))
                 /\ i \in Trash(DB, u) <=> transactions[i].deleted_at # NullText
           /\ transactions[i].user_id # u
              => i \notin ListTransactions(DB, u) \cup Trash(DB, u)
    /\ Serving =>
           \A u \in Users, id \in TxIds :
               /\ id \in ListTransactions(DB, u)
                  => \A reason \in Reasons, now \in Times :
                         LET out == DeleteTransaction(DB, u, id, reason, now)
                         IN /\ out.response.status = 200
                            /\ id \in Trash(out.db, u)
                            /\ id \notin ListTransactions(out.db, u)
               /\ id \in Trash(DB, u)
                  => LET out == RestoreTransaction(DB, u, id)
                     IN IF out.response.status = 200
                        THEN /\ id \in ListTransactions(out.db, u)
                             /\ id \notin Trash(out.db, u)
                        ELSE /\ id \in Trash(out.db, u)
                             /\ id \notin ListTransactions(out.db, u)

\* a transaction went to the trash and a restore brought it back to the list
C21_Witness ==
    /\ response.op = "restore" /\ response.status = 200
    /\ Len(transaction_history) = 2
    /\ transaction_history[1].action = "delete"
    /\ response.id \in ListTransactions(DB, transactions[response.id].user_id)
    /\ response.id \notin Trash(DB, transactions[response.id].user_id)

\* the response is a rejection for insufficient funds
RejectedForFunds(resp) ==
    resp.error \in {"Insufficient funds", "Cannot restore: Insufficient funds"}

\* C22: income is never balance-validated.  A create of an income, an edit
\* whose new type is income and a restore of an income are never rejected
\* for insufficient funds, whatever the balance of the account; a create
\* of an income succeeds.
C22_IncomeNotValidated ==
    Serving =>
        /\ \A b \in Bodies :
             \A rate \in RatesFor(b) :
               (b.type = "income" /\ validateTransactionInput(b) = "")
               => /\ CreateOutcome(DB, b, rate).response.status = 200
                  /\ \A id \in TxIds :
                         LET out == EditOutcome(DB, [b EXCEPT !.id = id], rate)
                         IN /\ ~RejectedForFunds(out.response)
                            /\ (/\ id <= Len(transactions)
                                /\ transactions[id].user_id = b.user
                                /\ transactions[id].deleted_at = NullText)
                               => out.response.status = 200
        /\ \A u \in Users, id \in TxIds :
               (/\ id <= Len(transactions)
                /\ transactions[id].user_id = u
                /\ transactions[id].deleted_at # NullText
                /\ transactions[id].type = "income")
               => RestoreTransaction(DB, u, id).response.status = 200

\* an income of 1 was accepted on an account of the requester that held 0
C22_Witness ==
    /\ response.op = "create" /\ response.status = 200
    /\ transactions[response.id].type = "income"
    /\ transactions[response.id].amount = 1
    /\ AccountFound(transactions[response.id].account_id,
                    transactions[response.id].user_id)
    /\ accounts[transactions[response.id].account_id] = 1
    /\ Len(transactions) = 2
    /\ transactions[1].type = "expense"

\* C23: no handler is suspended in the exchange-rate lookup while the unit
\* of work it opened is open: every await completes before BEGIN, so a
\* mutation runs from BEGIN to COMMIT or ROLLBACK without yielding.
C23_NoAwaitInsideUnit ==
    \A p \in Procs : pc[p] \in {"create_await", "edit_await"} => ~inTransaction

\* C24: the tentative reversal of an in-flight edit is not observable.
\* While an edit is suspended and another handler is free to serve a
\* request, every balance that request can read (an account read, the
\* balance validation of a create) is the committed balance, and the
\* validation of every create decides as it would on the committed balance.
C24_ReversalNotObservable ==
    \A p, q \in Procs :
        (pc[p] = "edit_await" /\ pc[q] = "idle" /\ inTransaction)
        => /\ accounts = snapshot.accounts
           /\ \A b \in Bodies :
                  (b.type \in DebitTypes /\ AccountFound(b.account_id, b.user))
                  => validateSufficientBalance(accounts[b.account_id], b.amount)
                       = validateSufficientBalance(
                             snapshot.accounts[b.account_id], b.amount)

\* C25: every unit of work that a mutation opens is eventually closed and
\* every request eventually gets its response, even when the exchange-rate
\* lookup never answers.
C25_EventuallyClosed ==
    /\ inTransaction ~> ~inTransaction
    /\ \A p \in Procs : (pc[p] # "idle") ~> (pc[p] = "idle")

\* C26: a create or an edit of an income whose account is not an account
\* of the requesting user is answered 404 and has no side effect, so no
\* row is stored as active with an effect that was applied to no account.
C26_IncomeAccountValidated ==
    Serving =>
        \A b \in Bodies, rate \in LookupRates :
            (/\ validateTransactionInput(b) = ""
             /\ b.type = "income"
             /\ ~AccountFound(b.account_id, b.user))
            => /\ LET out == CreateOutcome(DB, b, rate)
                  IN out.response.status = 404 /\ out.db = DB
               /\ \A id \in TxIds :
                      LET out == EditOutcome(DB, [b EXCEPT !.id = id], rate)
                      IN out.response.status = 404 /\ out.db = DB

\* C27: with requests one at a time, right after every successful create,
\* edit or restore of an expense, transfer or conversion the source
\* account of that transaction holds a balance >= 0, whatever happened
\* before and even if its balance was negative before.
C27_SourceNotOverdrawn ==
    Serving =>
        /\ \A b \in Bodies :
             \A rate \in RatesFor(b) :
               b.type \in DebitTypes
               => /\ LET out == CreateOutcome(DB, b, rate)
                     IN out.response.status = 200
                        => out.db.accounts[b.account_id] >= 0
                  /\ \A id \in TxIds :
                         LET out == EditOutcome(DB, [b EXCEPT !.id = id], rate)
                         IN out.response.status = 200
                            => out.db.accounts[b.account_id] >= 0
        /\ \A u \in Users, id \in TxIds :
               LET out == RestoreTransaction(DB, u, id)
               IN (out.response.status = 200
                   /\ transactions[id].type \in DebitTypes)
                  => out.db.accounts[transactions[id].account_id] >= 0

\* the source account is overdrawn and an edit of a debit on it succeeds
C27_Witness ==
    /\ Serving
    /\ \E b \in Bodies, id \in TxIds :
           /\ b.type \in DebitTypes
           /\ AccountFound(b.account_id, b.user)
           /\ accounts[b.account_id] < 0
           /\ EditOutcome(DB, [b EXCEPT !.id = id], 1).response.status = 200

\* C28: an edit validates the new debit against the balance left by the
\* reversal of the old effect.  An edit of an expense of a1 into an expense
\* of a2 on the same account is accepted iff a2 <= balance + a1; a
\* rejection reports availableBalance = balance + a1 and changes nothing.
C28_EditValidatesReversed ==
    Serving =>
        \A b \in Bodies, id \in 1..Len(transactions) :
          \A rate \in RatesFor(b) :
            (/\ id <= Len(transactions)
             /\ transactions[id].user_id = b.user
             /\ transactions[id].deleted_at = NullText
             /\ transactions[id].type = "expense"
             /\ validateTransactionInput(b) = ""
             /\ b.type = "expense"
             /\ b.account_id = transactions[id].account_id
             /\ AccountFound(b.account_id, b.user))
            => LET out == EditOutcome(DB, [b EXCEPT !.id = id], rate)
                   reversed == accounts[b.account_id] + transactions[id].amount
               IN IF b.amount <= reversed
                  THEN /\ out.response.status = 200
                       /\ out.db.accounts[b.account_id] = reversed - b.amount
                  ELSE /\ out.db = DB
                       /\ out.response =
                            [op |-> "edit", status |-> 400,
                             error |-> "Insufficient funds",
                             availableBalance |-> reversed,
                             attemptedAmount |-> b.amount,
                             shortfall |-> b.amount - reversed,
                             id |-> id, changed |-> FALSE]

\* an edit of an expense of 1 was refused with the reversed balance reported
C28_Witness ==
    /\ response.op = "edit" /\ response.status = 400
    /\ response.error = "Insufficient funds"
    /\ transactions[response.id].type = "expense"
    /\ transactions[response.id].amount = 1
    /\ response.availableBalance
         = accounts[transactions[response.id].account_id] + 1
    /\ response.attemptedAmount = 2

\* bodies of an edit into a conversion: every amount at the rates 1 and 2
\* between the requester's accounts, and one towards an account of
\* another user
ConversionBodies ==
    {Body(1, "conversion", a, 1, 2, c) : a \in Amounts, c \in {"", "2"}}
    \cup {Body(1, "conversion", 1, 1, 3, "2")}

\* delta on account a of a debit of out at account src and a credit of in
\* at account dst
Moved(a, src, out, dst, in) ==
    (IF a = src THEN -out ELSE 0) + (IF a = dst THEN in ELSE 0)

\* C29: when a conversion is edited into a conversion, the reversal takes
\* from the old destination the converted_amount that was stored before
\* the edit (and gives the old amount back to the old source), the
\* re-application credits the new destination with the new amount times
\* the new rate, and the converted_amount stored after the edit is that
\* credit.
C29_ConversionEdit ==
    Serving =>
        \A b \in ConversionBodies, id \in TxIds :
            (/\ id <= Len(transactions)
             /\ transactions[id].user_id = b.user
             /\ transactions[id].deleted_at = NullText
             /\ transactions[id].type = "conversion")
            => LET old == transactions[id]
                   out == EditStart(DB, [b EXCEPT !.id = id])
                   credit == b.amount * ExplicitRate(b)
               IN out.response.status = 200
                  => /\ out.db.transactions[id].converted_amount = credit
                     /\ \A a \in AccountIds :
                            out.db.accounts[a] - accounts[a]
                              = Moved(a, b.account_id, b.amount,
                                      b.to_account_id, credit)
                                - Moved(a, old.account_id, old.amount,
                                        old.to_account_id,
                                        old.converted_amount)

\* C30: reversal is the exact negation of application.  For every stored
\* transaction, applyTransactionEffect followed by reverseTransactionEffect
\* leaves every balance as it was; the effect that a create applies inline
\* is applyTransactionEffect of the row it persists; so a create followed
\* by a delete returns every balance to its value before the create,
\* conversions included, whatever the rate.
C30_ReverseNegatesApply ==
    Serving =>
        /\ \A i \in 1..Len(transactions) :
               LET t == transactions[i]
               IN /\ reverseTransactionEffect(
                         applyTransactionEffect(DB, t, t.user_id), t, t.user_id)
                         .accounts = accounts
                  /\ applyTransactionEffect(
                         reverseTransactionEffect(DB, t, t.user_id), t, t.user_id)
                         .accounts = accounts
        /\ \A b \in Bodies \cup ConversionBodies :
             \A rate \in RatesFor(b) :
               LET created == CreateOutcome(DB, b, rate)
                   id == created.response.id
               IN created.response.status = 200
                  => /\ created.db.accounts
                          = applyTransactionEffect(
                                DB, created.db.transactions[id], b.user).accounts
                     /\ \A reason \in Reasons, now \in Times :
                            LET deleted == DeleteTransaction(
                                               created.db, b.user, id, reason, now)
                            IN /\ deleted.response.status = 200
                               /\ deleted.db.accounts = accounts

\* a conversion at rate 2 was created and then deleted, and every balance
\* is back at its initial value
C30_Witness ==
    /\ response.op = "delete" /\ response.status = 200
    /\ transactions[response.id].type = "conversion"
    /\ transactions[response.id].converted_amount
         = 2 * transactions[response.id].amount
    /\ transactions[response.id].amount > 0
    /\ transactions[response.id].deleted_at # NullText
    /\ Len(transaction_history) = 1
    /\ accounts = InitialBalance

\* what a create of r adds to the balance of account a, per type: the rate
\* of a conversion is the one supplied, 1 when none is
CreateDelta(r, a) ==
    IF r.type = "income" THEN (IF a = r.account_id THEN r.amount ELSE 0)
    ELSE IF r.type = "expense" THEN (IF a = r.account_id THEN -r.amount ELSE 0)
    ELSE IF r.type = "transfer"
    THEN Moved(a, r.account_id, r.amount, r.to_account_id, r.amount)
    ELSE Moved(a, r.account_id, r.amount, r.to_account_id,
               r.amount * ExplicitRate(r))

\* C31: a successful create changes the balances exactly per type and
\* nothing else: income adds amount to its account, expense takes amount
\* from it, transfer takes amount from the source and adds it to the
\* destination, conversion takes amount from the source and adds amount
\* times the supplied rate to the destination; every other account keeps
\* its balance.
C31_CreateEffect ==
    Serving =>
        \A b \in Bodies \cup ConversionBodies :
          \A rate \in RatesFor(b) :
            LET out == CreateOutcome(DB, b, rate)
            IN out.response.status = 200
               => \A a \in AccountIds :
                      out.db.accounts[a] - accounts[a] = CreateDelta(b, a)

\* C32: a delete of an active transaction of the requester always succeeds,
\* whatever the type and whatever the balances (nothing is validated): it
\* takes the effect of the transaction back from the requester's accounts,
\* sets deleted_at, and sets deleted_reason to the reason supplied, or to
\* 'User deleted' when none is.
C32_DeleteAlwaysSucceeds ==
    Serving =>
        \A u \in Users, id \in TxIds, reason \in Reasons, now \in Times :
            TxFound(DB, id, u, FALSE)
            => LET t == transactions[id]
                   out == DeleteTransaction(DB, u, id, reason, now)
                   row == out.db.transactions[id]
               IN /\ out.response.status = 200
                  /\ \A a \in AccountIds :
                         out.db.accounts[a]
                           = IF AccountOwner[a] = u
                             THEN accounts[a] - EffectOn(t, a)
                             ELSE accounts[a]
                  /\ applyTransactionEffect(out.db, t, u).accounts = accounts
                  /\ row.deleted_at = now /\ row.deleted_at # NullText
                  /\ row.deleted_reason
                       = (IF reason = "" THEN "User deleted" ELSE reason)
                  /\ Descriptor(row) = Descriptor(t)
                  /\ ~out.db.inTransaction

\* an income was deleted after its money had been spent: the delete
\* succeeded and left the account overdrawn
C32_Witness ==
    /\ response.op = "delete" /\ response.status = 200
    /\ transactions[response.id].type = "income"
    /\ transactions[response.id].deleted_at # NullText
    /\ transactions[response.id].deleted_reason = "User deleted"
    /\ accounts[transactions[response.id].account_id] < 0

\* C33: in every reachable state, every transaction has deleted_reason set
\* exactly when deleted_at is set: create sets neither, edit changes
\* neither, delete sets both, restore clears both.
C33_ReasonIffDeleted ==
    \A i \in 1..Len(transactions) :
        (transactions[i].deleted_reason # NullText)
            <=> (transactions[i].deleted_at # NullText)

\* a transaction came back from the trash with both markers cleared
C33_Witness ==
    /\ response.op = "restore" /\ response.status = 200
    /\ transactions[response.id].deleted_at = NullText
    /\ transactions[response.id].deleted_reason = NullText
    /\ Len(transaction_history) >= 1
    /\ transaction_history[Len(transaction_history)].action = "restore"
    /\ transaction_history[Len(transaction_history)].transaction_id = response.id

\* C34: no operation removes a transaction row or changes its id or its
\* owner.  In every step the rows that exist stay, each with its id and its
\* user_id, so the set of ids only grows; a delete is soft (the row stays,
\* with the descriptor it had); the deletion markers of a row change only
\* in a successful delete or restore of that row, so an edit leaves the
\* transaction active and changes descriptor fields only.
C34_RowsPersist ==
    [][/\ Len(transactions') >= Len(transactions)
       /\ \A i \in 1..Len(transactions) :
            /\ transactions[i].id = i
            /\ transactions'[i].id = transactions[i].id
            /\ transactions'[i].user_id = transactions[i].user_id
            /\ (\/ transactions'[i].deleted_at # transactions[i].deleted_at
                \/ transactions'[i].deleted_reason
                     # transactions[i].deleted_reason)
               => /\ response'.op \in {"delete", "restore"}
                  /\ response'.status = 200
                  /\ response'.id = i
                  /\ Descriptor(transactions'[i]) = Descriptor(transactions[i])
            /\ (response'.op = "edit" /\ response'.changed)
               => /\ transactions'[i].deleted_at = transactions[i].deleted_at
                  /\ transactions'[i].deleted_reason
                       = transactions[i].deleted_reason]_vars

\* an edit has rewritten the descriptor of a transaction, which is still
\* there under its id and owner, and active
C34_Witness ==
    /\ response.op = "edit" /\ response.status = 200
    /\ Len(transaction_history) >= 1
    /\ LET h == transaction_history[Len(transaction_history)]
           t == transactions[response.id]
       IN /\ h.action = "edit" /\ h.transaction_id = response.id
          /\ Descriptor(h) # Descriptor(t)
          /\ t.id = response.id /\ t.user_id = h.user_id
          /\ t.deleted_at = NullText

\* C35: every transaction persisted by a create or an edit has a strictly
\* positive amount: a create or an edit with an amount of 0 or less is
\* rejected as a validation error and changes nothing.
C35_PositiveAmounts ==
    /\ \A i \in 1..Len(transactions) : transactions[i].amount > 0
    /\ Serving =>
         \A b \in Bodies :
           b.amount <= 0
           => /\ CreateOutcome(DB, b, 1).response.status = 400
              /\ CreateOutcome(DB, b, 1).db = DB
              /\ \A id \in 1..Len(transactions) :
                     TxFound(DB, id, b.user, FALSE)
                     => /\ EditOutcome(DB, [b EXCEPT !.id = id], 1)
                               .response.status = 400
                        /\ EditOutcome(DB, [b EXCEPT !.id = id], 1).db = DB

\* the number of history rows of user u tagged action
Tagged(u, action) ==
    Cardinality({k \in 1..Len(transaction_history) :
        /\ transaction_history[k].user_id = u
        /\ transaction_history[k].action = action})

FetchedWithinTheHour(k) ==
    exchange_rates[k] # NoRate /\ clock - exchange_rates[k].fetched_at < Hour

\* C37: the exchange-rate lookup answers rate 1 on every failure (a
\* response that is not ok, an unsuccessful payload, an exception) and for
\* identical currencies, so the create or edit that made a failed lookup
\* still succeeds, at rate 1; a rate it fell back to is never stored in the
\* memory cache or in exchange_rates; a rate fetched successfully is stored
\* in both and is served, with no fetch, to every later lookup of the same
\* pair within the hour.
C37_LookupFallsBack ==
    [][/\ \A payload \in FetchPayloads, k \in CacheKeys :
            LET f == fetchExchangeRateFetched(exchangeRateCache, exchange_rates,
                                              k[1], k[2], payload, clock)
            IN (payload.thrown \/ ~payload.ok \/ ~payload.success
                  \/ payload.result = 0)
               => /\ f.rate = 1
                  /\ f.cache = exchangeRateCache
                  /\ f.rates = exchange_rates
       /\ \A c \in ForeignCurrencies \cup {UserCurrency} :
            LET same == fetchExchangeRateCached(exchangeRateCache,
                                                exchange_rates, c, c, clock)
            IN same.settled /\ same.rate = 1
       /\ lookup'.source = "fallback"
          => /\ lookup'.rate = 1
             /\ exchangeRateCache' = exchangeRateCache
             /\ exchange_rates' = exchange_rates
             /\ response'.op \in {"create", "edit"}
             /\ response'.status = 200
             /\ transactions'[response'.id].exchange_rate = 1
             /\ transactions'[response'.id].converted_amount
                  = transactions'[response'.id].amount
       /\ lookup'.source = "fetched"
          => /\ exchangeRateCache'[lookup'.key]
                  = [rate |-> lookup'.rate, timestamp |-> clock]
             /\ exchange_rates'[lookup'.key]
                  = [rate |-> lookup'.rate, fetched_at |-> clock]
             /\ response'.status = 200
             /\ transactions'[response'.id].exchange_rate = lookup'.rate
       /\ \A k \in CacheKeys :
            /\ exchange_rates'[k] # exchange_rates[k]
               => lookup'.source = "fetched" /\ lookup'.key = k
            /\ (exchangeRateCache'[k] # exchangeRateCache[k]
                  /\ exchangeRateCache'[k] # NoCached)
               => /\ lookup'.source \in {"fetched", "db"}
                  /\ lookup'.key = k
                  /\ exchangeRateCache'[k].rate = exchange_rates'[k].rate
            /\ (FetchedWithinTheHour(k) /\ lookup'.source # "none"
                  /\ lookup'.key = k /\ pc[1] = "idle")
               => /\ lookup'.source \in {"memory", "db"}
                  /\ lookup'.rate = exchange_rates[k].rate
                  /\ pc'[1] = "idle"
                  /\ response'.status = 200
                  /\ transactions'[response'.id].exchange_rate
                       = exchange_rates[k].rate]_vars

\* a lookup has failed while the rate of another pair is cached: nothing
\* is cached for its pair and the create succeeded at rate 1
C37_Witness ==
    /\ lookup.source = "fallback" /\ lookup.rate = 1
    /\ exchangeRateCache[lookup.key] = NoCached
    /\ exchange_rates[lookup.key] = NoRate
    /\ \E k \in CacheKeys : exchange_rates[k].rate = 2
    /\ response.op = "create" /\ response.status = 200
    /\ transactions[response.id].exchange_rate = 1

\* ------------------------------- the handlers, statement by statement
\* where a statement of the handler may throw a storage error: nowhere, at
\* the first statement before its BEGIN, at the BEGIN, at the first
\* statement after it, at the COMMIT, at the first statement after that
Faults == {"none", "before_begin", "begin", "in_unit", "commit", "after_commit"}

\* a BEGIN, COMMIT or ROLLBACK that was run; fails says that the storage
\* error hit this very statement
Cmd(cmd, fails) == [cmd |-> cmd, fails |-> fails]

BEGIN == Cmd("BEGIN", FALSE)
COMMIT == Cmd("COMMIT", FALSE)
ROLLBACK == Cmd("ROLLBACK", FALSE)

\* the handler answers as out says
Ran(out, cmds) ==
    [db |-> out.db, response |-> out.response, suspended |-> FALSE,
     issued |-> cmds]

\* a catch answers 500; db is what the connection holds by then
Threw(db, op, id, cmds) ==
    [db |-> db, response |-> Respond(op, 500, "storage error", id),
     suspended |-> FALSE, issued |-> cmds]

\* POST /api/transactions: everything from the account lookup to the SELECT
\* of the new row is in one try, whose catch runs ROLLBACK and swallows
\* its error
CreateIssued(db, r, rate, fault) ==
    LET out == CreateOutcome(db, r, rate) IN
    IF validateTransactionInput(r) # "" THEN Ran(out, <<>>)
    ELSE IF fault = "before_begin" /\ r.type \in DebitTypes /\ r.account_id # 0
    THEN Threw(db, "create", 0, <<ROLLBACK>>)
    ELSE IF out.response.status # 200 THEN Ran(out, <<>>)
    ELSE IF fault = "begin"
    THEN Threw(db, "create", 0, <<Cmd("BEGIN", TRUE), ROLLBACK>>)
    ELSE IF fault = "in_unit"
    THEN Threw(db, "create", 0, <<BEGIN, ROLLBACK>>)
    ELSE IF fault = "commit"
    THEN Threw(db, "create", 0, <<BEGIN, Cmd("COMMIT", TRUE), ROLLBACK>>)
    ELSE IF fault = "after_commit"
    THEN Threw(out.db, "create", 0, <<BEGIN, COMMIT, ROLLBACK>>)
    ELSE Ran(out, <<BEGIN, COMMIT>>)

\* PUT /api/transactions/:id: the SELECT of the row and the BEGIN are
\* outside the inner try, whose catch runs ROLLBACK; nothing follows the
\* COMMIT but the response
EditIssued(db, r, rate, fault) ==
    LET out == EditOutcome(db, r, rate) IN
    IF validateTransactionInput(r) # "" THEN Ran(out, <<>>)
    ELSE IF fault = "before_begin" THEN Threw(db, "edit", r.id, <<>>)
    ELSE IF ~TxFound(db, r.id, r.user, FALSE) THEN Ran(out, <<>>)
    ELSE IF fault = "begin"
    THEN Threw(db, "edit", r.id, <<Cmd("BEGIN", TRUE)>>)
    ELSE IF fault = "in_unit"
    THEN Threw(db, "edit", r.id, <<BEGIN, ROLLBACK>>)
    ELSE IF out.response.status # 200 THEN Ran(out, <<BEGIN, ROLLBACK>>)
    ELSE IF fault = "commit"
    THEN Threw(db, "edit", r.id, <<BEGIN, Cmd("COMMIT", TRUE), ROLLBACK>>)
    ELSE Ran(out, <<BEGIN, COMMIT>>)

\* DELETE /api/transactions/:id: as the edit, with nothing to reject
\* inside the unit
DeleteIssued(db, userId, id, reason, now, fault) ==
    LET out == DeleteTransaction(db, userId, id, reason, now) IN
    IF fault = "before_begin" THEN Threw(db, "delete", id, <<>>)
    ELSE IF ~TxFound(db, id, userId, FALSE) THEN Ran(out, <<>>)
    ELSE IF fault = "begin"
    THEN Threw(db, "delete", id, <<Cmd("BEGIN", TRUE)>>)
    ELSE IF fault = "in_unit"
    THEN Threw(db, "delete", id, <<BEGIN, ROLLBACK>>)
    ELSE IF fault = "commit"
    THEN Threw(db, "delete", id, <<BEGIN, Cmd("COMMIT", TRUE), ROLLBACK>>)
    ELSE Ran(out, <<BEGIN, COMMIT>>)

\* POST /api/transactions/:id/restore: as the edit, and the SELECT of the
\* restored row follows the COMMIT inside the inner try
RestoreIssued(db, userId, id, fault) ==
    LET out == RestoreTransaction(db, userId, id) IN
    IF fault = "before_begin" THEN Threw(db, "restore", id, <<>>)
    ELSE IF ~TxFound(db, id, userId, TRUE) THEN Ran(out, <<>>)
    ELSE IF fault = "begin"
    THEN Threw(db, "restore", id, <<Cmd("BEGIN", TRUE)>>)
    ELSE IF fault = "in_unit"
    THEN Threw(db, "restore", id, <<BEGIN, ROLLBACK>>)
    ELSE IF out.response.status # 200 THEN Ran(out, <<BEGIN, ROLLBACK>>)
    ELSE IF fault = "commit"
    THEN Threw(db, "restore", id, <<BEGIN, Cmd("COMMIT", TRUE), ROLLBACK>>)
    ELSE IF fault = "after_commit"
    THEN Threw(out.db, "restore", id, <<BEGIN, COMMIT, ROLLBACK>>)
    ELSE Ran(out, <<BEGIN, COMMIT>>)

\* the request is served from its first statement to its response
Serve(p, out) ==
    /\ Answer(p, NoRequest, out, "idle")
    /\ issued' = out.issued
    /\ UNCHANGED rateVars

UnitsCreate(p) ==
    /\ Ready(p)
    /\ \E r \in Bodies, fault \in Faults :
         \E rate \in RatesFor(r) : Serve(p, CreateIssued(DB, r, rate, fault))

UnitsEdit(p) ==
    /\ Ready(p)
    /\ \E b \in Bodies, id \in TxIds, fault \in Faults :
         \E rate \in RatesFor(b) :
             Serve(p, EditIssued(DB, [b EXCEPT !.id = id], rate, fault))

UnitsDelete(p) ==
    /\ Ready(p)
    /\ \E u \in Users, id \in TxIds, reason \in Reasons, now \in Times,
          fault \in Faults :
         Serve(p, DeleteIssued(DB, u, id, reason, now, fault))

UnitsRestore(p) ==
    /\ Ready(p)
    /\ \E u \in Users, id \in TxIds, fault \in Faults :
         Serve(p, RestoreIssued(DB, u, id, fault))

\* requests one at a time, over a storage that may fail
NextUnits ==
    \/ UnitsCreate(1)
    \/ UnitsEdit(1)
    \/ UnitsDelete(1)
    \/ UnitsRestore(1)

SpecUnits == Init /\ [][NextUnits]_vars

RECURSIVE OpenAfter(_, _)
\* the connection has an open transaction after the first n of cmds, run
\* on a connection that had none: a statement that fails changes nothing
OpenAfter(cmds, n) ==
    IF n = 0 THEN FALSE
    ELSE IF cmds[n].fails THEN OpenAfter(cmds, n - 1)
    ELSE cmds[n].cmd = "BEGIN"

\* the number of statements of cmds named cmd that took effect
Effective(cmds, names) ==
    Cardinality({n \in 1..Len(cmds) :
        /\ cmds[n].cmd \in names
        /\ ~cmds[n].fails
        /\ (cmds[n].cmd = "BEGIN") # OpenAfter(cmds, n - 1)})

\* C38: with requests served one at a time, every BEGIN that a create,
\* edit, delete or restore issues is matched by exactly one COMMIT or
\* ROLLBACK on every exit path (success, validation rejection, missing
\* source account, storage error): no transaction is open once the handler
\* has answered, and no COMMIT or ROLLBACK is issued when none is open.
C38_UnitsMatched ==
    /\ ~inTransaction
    /\ ~OpenAfter(issued, Len(issued))
    /\ Effective(issued, {"BEGIN"}) = Effective(issued, {"COMMIT", "ROLLBACK"})
    /\ \A n \in 1..Len(issued) :
           issued[n].cmd \in {"COMMIT", "ROLLBACK"}
           => OpenAfter(issued, n - 1)

====
